---- MODULE Spec2Model ----
(***************************************************************************)
(* Model of src/main.py: a one-hop image harvester built on asyncio.       *)
(*                                                                         *)
(* Strings are TLA+ strings, handled character by character with SubSeq.   *)
(* An HTML document is abstracted to what html.parser hands to the code:   *)
(* the sequence of <a> elements and the sequence of <img> elements, each    *)
(* element being <<>> (attribute absent) or <<value>>.                      *)
(* An optional Python value is <<>> (None) or <<v>>.                       *)
(***************************************************************************)
EXTENDS Naturals, Sequences, FiniteSets, TLC

VARIABLES
    mainpc,        \* position of main()/download_all_images
    mainexc,       \* exception that left download_all_images, "" if none
    closed,        \* the shared ClientSession has been closed
    content,       \* what get_page gave get_all_relevant_subpages: "", "None", "text"
    subpages,      \* the list get_all_relevant_subpages returned
    pages,         \* all_relevant_pages handed to scrape_pages
    tasks,         \* the scrape_page tasks created by asyncio.gather
    files,         \* OUTPUT_FOLDER: file name -> <<>> (absent) or <<content>>
    last,          \* file name -> <<>> or <<the bytes of the write that ended last>>
    budget,        \* <img> elements the site's pages may still carry
    fn, arg, res   \* a pure function, its argument and its result (SpecPure)

vars == <<mainpc, mainexc, closed, content, subpages, pages, tasks, files, last, budget, fn, arg, res>>

(***************************************************************************)
(* Bounds and input alphabets.                                             *)
(***************************************************************************)
MaxAnchors == 2      \* <a> elements on the root page
MaxImgs == 2         \* <img> elements on one page
MaxSiteImgs == 2     \* <img> elements on all the pages of the site together

main_page == "exponea.com"

\* hrefs of the root page's anchors, as the pure functions see them
Hrefs == { "https://exponea.com/about", "https://exponea.com",
           "http://exponea.com/blog", "https://other.com/x",
           "https://other.com/?r=exponea.com", "/exponea.com/faq",
           "//exponea.com/x", "#top" }

\* src attributes of <img> elements
Srcs == { "//cdn.example.com/a.png", "https://cdn.example.com/b.jpg",
          "http://host/a.png", "/img/c.gif", "//t.co/p?u=https://a/d.png" }

\* hrefs and srcs offered to the crawl
CrawlHrefs == { "https://exponea.com/about", "https://exponea.com",
                "https://other.com/x" }
CrawlSrcs == { "//cdn.example.com/a.png", "https://cdn.example.com/b.jpg",
               "http://host/a.png" }

\* byte payloads a server may send for an image
Payloads == { "", "x", "yz" }

Statuses == { 200, 404, 500 }

\* sequences over S of length at most n
SeqUpTo(S, n) == UNION { [1..k -> S] : k \in 0..n }

\* an element with the attribute absent, or present with a value of S
Elements(S) == { <<>> } \cup { <<s>> : s \in S }

(***************************************************************************)
(* What one GET can do: session.get raises a certificate error or another  *)
(* exception, or a response arrives with a status; the body of a 200      *)
(* response is read, which raises or yields the data.                      *)
(***************************************************************************)
Outcomes(Data) ==
    { [exc |-> e, status |-> 0, readexc |-> FALSE, data |-> <<>>] :
        e \in { "ClientConnectorCertificateError", "ClientError" } }
    \cup { [exc |-> "", status |-> s, readexc |-> FALSE, data |-> <<>>] :
        s \in Statuses \ { 200 } }
    \cup { [exc |-> "", status |-> 200, readexc |-> TRUE, data |-> <<>>] }
    \cup { [exc |-> "", status |-> 200, readexc |-> FALSE, data |-> <<d>>] : d \in Data }

Return(v) == [raised |-> FALSE, exc |-> "", val |-> v]
Raise(e) == [raised |-> TRUE, exc |-> e, val |-> <<>>]

(***************************************************************************)
(* String helpers (Python's `in`, re "^http", str.split('/')[-1]).         *)
(***************************************************************************)
Contains(s, m) ==
    \E i \in 1..(Len(s) + 1 - Len(m)) : SubSeq(s, i, i + Len(m) - 1) = m

StartsWith(s, m) == Len(s) >= Len(m) /\ SubSeq(s, 1, Len(m)) = m

LastSlash(s) ==
    LET P == { i \in 1..Len(s) : SubSeq(s, i, i) = "/" }
    IN  IF P = {} THEN 0 ELSE CHOOSE i \in P : \A j \in P : j <= i

file_name(source) == SubSeq(source, LastSlash(source) + 1, Len(source))

(***************************************************************************)
(* get_image: no try/except; session.get on a closed session raises.       *)
(***************************************************************************)
get_image(isClosed, o) ==
    IF isClosed THEN Raise("RuntimeError")
    ELSE IF o.exc # "" THEN Raise(o.exc)
    ELSE IF o.status # 200 THEN Return(<<>>)
    ELSE IF o.readexc THEN Raise("ClientPayloadError")
    ELSE Return(o.data)

(***************************************************************************)
(* get_page: every exception of the GET or of reading the body is caught.  *)
(***************************************************************************)
get_page_nocatch(isClosed, o) ==
    IF isClosed THEN Raise("RuntimeError")
    ELSE IF o.exc = "ClientConnectorCertificateError" THEN Return(<<>>)
    ELSE IF o.exc # "" THEN Raise(o.exc)
    ELSE IF o.status # 200 THEN Return(<<>>)
    ELSE IF o.readexc THEN Raise("ClientPayloadError")
    ELSE Return(o.data)

get_page(isClosed, o) ==
    IF isClosed THEN Return(<<>>)
    ELSE IF o.exc = "ClientConnectorCertificateError" THEN Return(<<>>)
    ELSE IF o.exc # "" THEN Return(<<>>)
    ELSE IF o.status # 200 THEN Return(<<>>)
    ELSE IF o.readexc THEN Return(<<>>)
    ELSE Return(o.data)

(***************************************************************************)
(* get_all_relevant_subpages, after its get_page: BeautifulSoup(None)      *)
(* raises TypeError; otherwise the anchors whose href matches "^http" and  *)
(* contains main_page, in document order.                                  *)
(***************************************************************************)
href_matches(a) == a # <<>> /\ StartsWith(a[1], "http")

relevant_no_http(anchors, domain) ==
    LET Rel(a) == a # <<>> /\ Contains(a[1], domain)
        sel == SelectSeq(anchors, Rel)
    IN  [k \in 1..Len(sel) |-> sel[k][1]]

relevant_links(anchors, domain) ==
    LET Rel(a) == href_matches(a) /\ Contains(a[1], domain)
        sel == SelectSeq(anchors, Rel)
    IN  [k \in 1..Len(sel) |-> sel[k][1]]

get_all_relevant_subpages(body, domain) ==
    IF body = <<>> THEN Raise("TypeError")
    ELSE Return(relevant_links(body[1].anchors, domain))

(***************************************************************************)
(* get_url_images, the extraction part: img['src'] raises KeyError on an   *)
(* <img> without src; each source without 'https:' gets it prepended.      *)
(***************************************************************************)
fix_source_prefix(source) ==
    IF ~StartsWith(source, "https:") THEN "https:" \o source ELSE source

fix_source(source) ==
    IF ~Contains(source, "https:") THEN "https:" \o source ELSE source

image_sources(imgs) ==
    IF \E k \in 1..Len(imgs) : imgs[k] = <<>> THEN Raise("KeyError")
    ELSE Return([k \in 1..Len(imgs) |-> imgs[k][1]])

image_sources_fixed(sources) == [k \in 1..Len(sources) |-> fix_source(sources[k])]

\* `if image:` is false for None and for empty bytes
Truthy(image) == image # <<>> /\ image[1] # ""

(***************************************************************************)
(* The crawl.  A page body carries the <a> elements (read only by          *)
(* get_all_relevant_subpages) and the <img> elements (read only by         *)
(* get_url_images).                                                        *)
(***************************************************************************)
RootBodies ==
    { [anchors |-> a, imgs |-> <<>>] : a \in SeqUpTo(Elements(CrawlHrefs), MaxAnchors) }

PageBodies ==
    { [anchors |-> <<>>, imgs |-> m] : m \in SeqUpTo(Elements(CrawlSrcs), MaxImgs) }

FileNames == { file_name(fix_source(s)) : s \in CrawlSrcs }

root_url == "https://" \o main_page

\* a scrape_page coroutine not yet started.  page: what get_page gave it ("",
\* "None", "text"); raw, srcs: image_sources and image_sources_fixed; k: the
\* source being fetched; got: what get_image returned for the sources so far;
\* images: the list get_url_images builds; w: the image being saved; wrote:
\* the images whose write has ended; reqs: the URLs of the GETs issued;
\* inflight: GETs issued and not yet ended; was: pc when cancelled
NewTask(url) ==
    [pc |-> "pending", url |-> url, exc |-> "", page |-> "", raw |-> <<>>, srcs |-> <<>>,
     k |-> 0, got |-> <<>>, images |-> <<>>, w |-> 0, wrote |-> <<>>, reqs |-> <<>>,
     inflight |-> 0, was |-> ""]

\* session.get(url) is called: the request is on its way
issue(t, url) == [t EXCEPT !.reqs = Append(@, url), !.inflight = @ + 1]

returned_not(t) == t

\* the awaited session.get (and the read of the body) has ended
returned(t) == [t EXCEPT !.inflight = @ - 1]

all_relevant_pages_dedup(first, sub) ==
    LET New(u) == \A k \in 1..Len(first) : first[k] # u
    IN  first \o SelectSeq(sub, New)

\* all_relevant_pages.extend(subpages)
all_relevant_pages(first, sub) == first \o sub

scrape_pages_distinct(urls) ==
    LET First == { i \in 1..Len(urls) : \A j \in 1..(i - 1) : urls[j] # urls[i] }
    IN  [i \in 1..Cardinality(First) |->
           NewTask(urls[CHOOSE n \in First : Cardinality({ m \in First : m <= n }) = i])]

\* tasks = [scrape_page(session, url) for url in pages]
scrape_pages(urls) == [i \in 1..Len(urls) |-> NewTask(urls[i])]

Tasks == DOMAIN tasks

Finished(t) == t.pc \in { "done", "raised", "cancelled" }

AllStarted == \A i \in Tasks : tasks[i].pc # "pending"

\* the coroutine ends by an exception
Fail(t, e) == [t EXCEPT !.pc = "raised", !.exc = e]

\* save_url_images(images): nothing to do for an empty list
save_url_images(t) ==
    IF t.images = <<>> THEN [t EXCEPT !.pc = "done"]
    ELSE [t EXCEPT !.pc = "open", !.w = 1]

\* the loop of get_url_images reaches source number k: call get_image on it
next_image_eager(t, k) ==
    IF k > Len(t.srcs) \/ t.images # <<>> THEN save_url_images(t)
    ELSE IF closed THEN Fail(t, get_image(TRUE, CHOOSE o \in Outcomes(Payloads) : TRUE).exc)
    ELSE issue([t EXCEPT !.pc = "get_image", !.k = k], t.srcs[k])

next_image(t, k) ==
    IF k > Len(t.srcs) THEN save_url_images(t)
    ELSE IF closed THEN Fail(t, get_image(TRUE, CHOOSE o \in Outcomes(Payloads) : TRUE).exc)
    ELSE issue([t EXCEPT !.pc = "get_image", !.k = k], t.srcs[k])

\* get_url_images after get_page has returned r
after_page_noguard(t, r) ==
    IF r.raised THEN Fail(t, r.exc)
    ELSE IF r.val = <<>> THEN Fail([t EXCEPT !.page = "None"], "TypeError")
    ELSE LET src == image_sources(r.val[1].imgs)
         IN  IF src.raised THEN Fail([t EXCEPT !.page = "text"], src.exc)
             ELSE next_image([t EXCEPT !.page = "text", !.raw = src.val,
                                       !.srcs = image_sources_fixed(src.val)], 1)

after_page(t, r) ==
    IF r.raised THEN Fail(t, r.exc)
    ELSE IF r.val = <<>> THEN save_url_images([t EXCEPT !.page = "None"])
    ELSE LET src == image_sources(r.val[1].imgs)
         IN  IF src.raised THEN Fail([t EXCEPT !.page = "text"], src.exc)
             ELSE next_image([t EXCEPT !.page = "text", !.raw = src.val,
                                       !.srcs = image_sources_fixed(src.val)], 1)

Init ==
    /\ mainpc = "start"
    /\ mainexc = ""
    /\ closed = FALSE
    /\ content = ""
    /\ subpages = <<>>
    /\ pages = <<>>
    /\ tasks = <<>>
    /\ files = [n \in FileNames |-> <<>>]
    /\ last = [n \in FileNames |-> <<>>]
    /\ budget = MaxSiteImgs
    /\ fn = "" /\ arg = <<>> /\ res = <<>>

\* download_all_images up to the GET of get_all_relevant_subpages
M_Start ==
    /\ mainpc = "start"
    /\ mainpc' = "discover"
    /\ pages' = <<root_url>>
    /\ UNCHANGED <<mainexc, closed, content, subpages, tasks, files, last, budget, fn, arg, res>>

\* the root page's GET ends: extract the subpages and fan out, or raise
M_Discover ==
    /\ mainpc = "discover"
    /\ \E o \in Outcomes(RootBodies) :
         LET r == get_page(closed, o)
             sub == IF r.raised THEN r ELSE get_all_relevant_subpages(r.val, main_page)
         IN  /\ content' = IF r.raised THEN "" ELSE IF r.val = <<>> THEN "None" ELSE "text"
             /\ IF sub.raised
                THEN /\ mainpc' = "raised"
                     /\ mainexc' = sub.exc
                     /\ closed' = TRUE
                     /\ UNCHANGED <<subpages, pages, tasks>>
                ELSE /\ mainpc' = "gather"
                     /\ subpages' = sub.val
                     /\ pages' = all_relevant_pages(pages, sub.val)
                     /\ tasks' = scrape_pages(all_relevant_pages(pages, sub.val))
                     /\ UNCHANGED <<mainexc, closed>>
    /\ UNCHANGED <<files, last, budget, fn, arg, res>>

\* asyncio.gather returns once every task has returned; the session closes
M_GatherReturn ==
    /\ mainpc = "gather"
    /\ \A i \in Tasks : tasks[i].pc = "done"
    /\ mainpc' = "returned"
    /\ closed' = TRUE
    /\ UNCHANGED <<mainexc, content, subpages, pages, tasks, files, last, budget, fn, arg, res>>

\* asyncio.gather raises the exception of a task that raised; the session closes
M_GatherRaise ==
    /\ mainpc = "gather"
    /\ \E i \in Tasks :
         /\ tasks[i].pc = "raised"
         /\ mainexc' = tasks[i].exc
    /\ mainpc' = "raised"
    /\ closed' = TRUE
    /\ UNCHANGED <<content, subpages, pages, tasks, files, last, budget, fn, arg, res>>

\* asyncio.run cancels the tasks still running when main() has raised
M_Shutdown ==
    /\ mainpc = "raised"
    /\ mainpc' = "exited"
    /\ tasks' = [i \in Tasks |->
                   IF Finished(tasks[i]) THEN tasks[i]
                   ELSE [tasks[i] EXCEPT !.pc = "cancelled", !.was = tasks[i].pc,
                                          !.inflight = 0]]
    /\ UNCHANGED <<mainexc, closed, content, subpages, pages, files, last, budget, fn, arg, res>>

Running == mainpc \in { "gather", "raised" }

\* scrape_page starts: get_url_images calls get_page, which issues the GET
T_Start(i) ==
    /\ Running
    /\ tasks[i].pc = "pending"
    /\ \A j \in 1..(i - 1) : tasks[j].pc # "pending"
    /\ tasks' = [tasks EXCEPT ![i] =
         IF closed
         THEN after_page(@, get_page(TRUE, CHOOSE o \in Outcomes(PageBodies) : TRUE))
         ELSE issue([@ EXCEPT !.pc = "get_page"], tasks[i].url)]
    /\ UNCHANGED <<mainpc, mainexc, closed, content, subpages, pages, files, last, budget, fn, arg, res>>

\* the page's GET ends
T_PageResp(i) ==
    /\ Running /\ AllStarted
    /\ tasks[i].pc = "get_page"
    /\ \E o \in Outcomes(PageBodies) :
         LET r == get_page(FALSE, o)
             n == IF r.val = <<>> THEN 0 ELSE Len(r.val[1].imgs)
         IN  /\ n <= budget
             /\ budget' = budget - n
             /\ tasks' = [tasks EXCEPT ![i] = after_page(returned(@), r)]
    /\ UNCHANGED <<mainpc, mainexc, closed, content, subpages, pages, files, last, fn, arg, res>>

\* an image's GET ends
T_ImageResp(i) ==
    /\ Running /\ AllStarted
    /\ tasks[i].pc = "get_image"
    /\ \E o \in Outcomes(Payloads) :
         LET t == returned(tasks[i])
             r == get_image(FALSE, o)
             u == [t EXCEPT !.got = Append(@, r.val)]
         IN  tasks' = [tasks EXCEPT ![i] =
               IF r.raised THEN Fail(t, r.exc)
               ELSE next_image(
                      IF Truthy(r.val)
                      THEN [u EXCEPT !.images = Append(@, <<t.srcs[t.k], r.val[1]>>)]
                      ELSE u,
                      t.k + 1)]
    /\ UNCHANGED <<mainpc, mainexc, closed, content, subpages, pages, files, last, budget, fn, arg, res>>

\* aiofiles.open(name, 'wb'): the file is created or truncated
T_Open(i) ==
    /\ Running /\ AllStarted
    /\ tasks[i].pc = "open"
    /\ LET name == file_name(tasks[i].images[tasks[i].w][1])
       IN  files' = [files EXCEPT ![name] = <<"">>]
    /\ tasks' = [tasks EXCEPT ![i].pc = "write"]
    /\ UNCHANGED <<mainpc, mainexc, closed, content, subpages, pages, last, budget, fn, arg, res>>

\* f.write(image) and the close: the bytes land at offset 0 of the file
T_Write(i) ==
    /\ Running /\ AllStarted
    /\ tasks[i].pc = "write"
    /\ LET t == tasks[i]
           name == file_name(t.images[t.w][1])
           image == t.images[t.w][2]
           old == IF files[name] = <<>> THEN "" ELSE files[name][1]
       IN  /\ files' = [files EXCEPT ![name] =
                          <<image \o SubSeq(old, Len(image) + 1, Len(old))>>]
           /\ last' = [last EXCEPT ![name] = <<image>>]
           /\ tasks' = [tasks EXCEPT ![i] =
                          LET u == [t EXCEPT !.wrote = Append(@, t.images[t.w])]
                          IN  IF t.w < Len(t.images) THEN [u EXCEPT !.pc = "open", !.w = t.w + 1]
                              ELSE [u EXCEPT !.pc = "done"]]
    /\ UNCHANGED <<mainpc, mainexc, closed, content, subpages, pages, budget, fn, arg, res>>

Next ==
    \/ M_Start
    \/ M_Discover
    \/ M_GatherReturn
    \/ M_GatherRaise
    \/ M_Shutdown
    \/ \E i \in Tasks : T_Start(i)
    \/ \E i \in Tasks : T_PageResp(i)
    \/ \E i \in Tasks : T_ImageResp(i)
    \/ \E i \in Tasks : T_Open(i)
    \/ \E i \in Tasks : T_Write(i)

Spec == Init /\ [][Next]_vars

(***************************************************************************)
(* The functions on their own: each action applies one function of the     *)
(* source to an input drawn from the alphabets and records the result.     *)
(***************************************************************************)
crawl_vars == <<mainpc, mainexc, closed, content, subpages, pages, tasks, files, last, budget>>

P_get_page ==
    /\ \E c \in BOOLEAN, o \in Outcomes(RootBodies \cup PageBodies) :
         /\ arg' = [closed |-> c, o |-> o]
         /\ res' = get_page(c, o)
    /\ fn' = "get_page"
    /\ UNCHANGED crawl_vars

P_get_image ==
    /\ \E c \in BOOLEAN, o \in Outcomes(Payloads) :
         /\ arg' = [closed |-> c, o |-> o]
         /\ res' = get_image(c, o)
    /\ fn' = "get_image"
    /\ UNCHANGED crawl_vars

P_get_all_relevant_subpages ==
    /\ \E a \in SeqUpTo(Elements(Hrefs), MaxAnchors) :
         /\ arg' = a
         /\ res' = get_all_relevant_subpages(<<[anchors |-> a, imgs |-> <<>>]>>, main_page)
    /\ fn' = "get_all_relevant_subpages"
    /\ UNCHANGED crawl_vars

P_image_sources ==
    /\ \E m \in SeqUpTo(Elements(Srcs), MaxImgs) :
         /\ arg' = m
         /\ res' = LET src == image_sources(m)
                   IN  IF src.raised THEN src ELSE Return(image_sources_fixed(src.val))
    /\ fn' = "image_sources"
    /\ UNCHANGED crawl_vars

P_fix_source ==
    /\ \E source \in Srcs \cup { fix_source(x) : x \in Srcs } :
         /\ arg' = source
         /\ res' = fix_source(source)
    /\ fn' = "fix_source"
    /\ UNCHANGED crawl_vars

P_file_name ==
    /\ \E source \in { fix_source(x) : x \in Srcs } :
         /\ arg' = source
         /\ res' = file_name(source)
    /\ fn' = "file_name"
    /\ UNCHANGED crawl_vars

NextPure ==
    \/ P_get_page
    \/ P_get_image
    \/ P_get_all_relevant_subpages
    \/ P_image_sources
    \/ P_fix_source
    \/ P_file_name

SpecPure == Init /\ [][NextPure]_vars

(***************************************************************************)
(* Properties.                                                             *)
(***************************************************************************)
FetchExcs == { "ClientConnectorCertificateError", "ClientError", "ClientPayloadError" }

Left == mainpc \in { "returned", "raised", "exited" }

Ok200(o) == o.exc = "" /\ o.status = 200 /\ ~o.readexc

IsAbsolute(s) == StartsWith(s, "http://") \/ StartsWith(s, "https://")

\* the k-th smallest element of the set of numbers I
Nth(I, k) == CHOOSE n \in I : Cardinality({ m \in I : m <= n }) = k

\* C1: no fetch failure of a scrape task aborts the crawl or a sibling task:
\* download_all_images never leaves by the exception of a failed GET, and no
\* task is cancelled because of one.
C1_FetchFailureNeverAborts ==
    /\ ~(Left /\ mainexc \in FetchExcs)
    /\ \A i \in Tasks : tasks[i].pc = "cancelled" => mainexc \notin FetchExcs

\* C2: get_image on an open session returns the bytes of a 200 response and
\* returns None, without raising, for every other outcome of the GET.
C2_GetImageNeverRaises ==
    (fn = "get_image" /\ ~arg.closed) =>
        res = IF Ok200(arg.o) THEN Return(arg.o.data) ELSE Return(<<>>)

\* C3: get_page never raises: it returns the body of a 200 response that could
\* be read, and None for every other outcome of the GET.
C3_GetPageNeverRaises ==
    fn = "get_page" =>
        /\ ~res.raised
        /\ res.val = IF ~arg.closed /\ Ok200(arg.o) THEN arg.o.data ELSE <<>>

C3_Witness ==
    /\ fn = "get_page"
    /\ ~arg.closed
    /\ arg.o.exc = "ClientError"
    /\ res = Return(<<>>)

\* C4: when the root page's fetch gives None, get_all_relevant_subpages yields
\* no subpage without raising and the crawl goes on with the root page alone.
C4_RootFailureTolerated ==
    content = "None" =>
        /\ mainexc = ""
        /\ mainpc \in { "gather", "returned" }
        /\ subpages = <<>>
        /\ pages = <<root_url>>

\* C5: once download_all_images has handed control back, no scrape task is
\* still waiting to start, fetching or writing.
C5_JoinAll ==
    Left => \A i \in Tasks : tasks[i].pc \notin { "pending", "get_page", "get_image", "open", "write" }

\* C6: the work list is the root URL followed by the subpages as extracted,
\* duplicates kept, and there is exactly one scrape task per entry, in order.
C6_WorkList ==
    /\ mainpc = "discover" => pages = <<root_url>>
    /\ (mainpc \notin { "start", "discover" } /\ content = "text") =>
        /\ pages = <<root_url>> \o subpages
        /\ Len(tasks) = Len(pages)
        /\ \A i \in Tasks : tasks[i].url = pages[i]

C6_Witness ==
    /\ mainpc = "returned"
    /\ subpages = <<root_url, root_url>>
    /\ Len(tasks) = 3
    /\ \A i \in Tasks : tasks[i].pc = "done" /\ tasks[i].reqs[1] = root_url

\* C7 (as amended): the subpage list is exactly the hrefs that begin with
\* "http" and contain the domain filter anywhere, verbatim, in document order
\* and once per occurrence; every other anchor is left out.
C7_HttpHrefsContainingDomain ==
    fn = "get_all_relevant_subpages" =>
        LET I == { k \in 1..Len(arg) :
                     /\ arg[k] # <<>>
                     /\ StartsWith(arg[k][1], "http")
                     /\ Contains(arg[k][1], main_page) }
        IN  /\ ~res.raised
            /\ Len(res.val) = Cardinality(I)
            /\ \A j \in 1..Len(res.val) : res.val[j] = arg[Nth(I, j)][1]

C7_Witness ==
    /\ fn = "get_all_relevant_subpages"
    /\ arg = << <<"/exponea.com/faq">>, <<"https://other.com/?r=exponea.com">> >>
    /\ res = Return(<<"https://other.com/?r=exponea.com">>)

\* C7 (as claimed): an anchor's href is in the subpage list exactly when it
\* contains the domain filter as a substring.
C7_EveryHrefContainingDomain ==
    fn = "get_all_relevant_subpages" =>
        \A k \in 1..Len(arg) :
            arg[k] # <<>> =>
                (Contains(arg[k][1], main_page)
                    <=> \E j \in 1..Len(res.val) : res.val[j] = arg[k][1])

\* C8: an <img> without src never makes a scrape task raise.
C8_MissingSrcSkipped ==
    \A i \in Tasks : tasks[i].exc # "KeyError"

\* C9: a source without 'https:' gets 'https:' prepended, a source with it is
\* unchanged, and fixing the result again changes nothing.
C9_FixSource ==
    fn = "fix_source" =>
        /\ ~Contains(arg, "https:") => res = "https:" \o arg
        /\ Contains(arg, "https:") => res = arg
        /\ fix_source(res) = res

C9_Witness ==
    /\ fn = "fix_source"
    /\ arg = "//cdn.example.com/a.png"
    /\ res = "https://cdn.example.com/a.png"

\* C10: an absolute image URL is requested unchanged, a protocol-relative one
\* with 'https:' in front, and each image GET asks for the fixed URL.
C10_AbsoluteUnchanged ==
    \A i \in Tasks :
        LET t == tasks[i]
        IN  /\ \A k \in 1..Len(t.raw) :
                 /\ IsAbsolute(t.raw[k]) => t.srcs[k] = t.raw[k]
                 /\ StartsWith(t.raw[k], "//") => t.srcs[k] = "https:" \o t.raw[k]
            /\ \A k \in 1..(Len(t.reqs) - 1) : t.reqs[k + 1] = t.srcs[k]

\* what get_image returned for the sources fetched so far, failures left out
Successes(t) ==
    LET I == { k \in 1..Len(t.got) : t.got[k] # <<>> }
    IN  [j \in 1..Cardinality(I) |-> <<t.srcs[Nth(I, j)], t.got[Nth(I, j)][1]>>]

\* the task has opened (created or truncated) or written a file
Touched(t) ==
    t.wrote # <<>> \/ t.pc = "write" \/ (t.pc = "cancelled" /\ t.was = "write")

RECURSIVE InFlightImages(_)
InFlightImages(n) ==
    IF n = 0 THEN 0
    ELSE InFlightImages(n - 1)
         + (IF tasks[n].pc = "get_image" THEN tasks[n].inflight ELSE 0)

\* C11: a failed image fetch does not end the scrape task in error, and a task
\* that completes after a failed image fetch has written every image of the
\* page whose fetch succeeded, and only those.
C11_PartialFailure ==
    \A i \in Tasks :
        LET t == tasks[i]
        IN  /\ t.exc \notin FetchExcs
            /\ (t.pc = "done" /\ \E k \in 1..Len(t.got) : t.got[k] = <<>>) =>
                   t.wrote = Successes(t)

\* C12: when the crawl has returned, every file holds exactly the bytes of the
\* write to it that ended last.
C12_LastWriteWins ==
    mainpc = "returned" => \A n \in FileNames : files[n] = last[n]

\* C13: a scrape task that has ended has written exactly the images whose
\* fetch succeeded, empty payloads included, each with the bytes received.
C13_EverySuccessWritten ==
    \A i \in Tasks :
        tasks[i].pc \in { "done", "raised" } => tasks[i].wrote = Successes(tasks[i])

\* C14: a scrape task whose page fetch gave None is done without error, has
\* issued the page's GET only and has opened and written no file.
C14_FailedPageNoOp ==
    \A i \in Tasks :
        LET t == tasks[i]
        IN  t.page = "None" =>
                /\ t.pc = "done" /\ t.exc = ""
                /\ t.reqs = <<t.url>>
                /\ t.got = <<>> /\ t.images = <<>>
                /\ ~Touched(t)

C14_Witness ==
    /\ Len(tasks) = 2
    /\ tasks[1].page = "None" /\ tasks[1].pc = "done"
    /\ tasks[2].wrote # <<>>
    /\ \E n \in FileNames : files[n] # <<>>

C16_StopsOnlyCompleted ==
    ~ENABLED Next => (mainpc = "returned" /\ \A i \in Tasks : tasks[i].pc = "done")

\* C17: a scrape task has at most one GET in flight, it has issued at most one
\* image GET more than have returned, and the image GETs in flight over all the
\* tasks are never more than the tasks.
C17_SequentialImages ==
    /\ \A i \in Tasks :
         /\ tasks[i].inflight <= 1
         /\ Len(tasks[i].reqs) <= Len(tasks[i].got) + 2
    /\ InFlightImages(Len(tasks)) <= Len(tasks)

C17_Witness ==
    /\ Len(tasks) = 2
    /\ tasks[1].pc = "get_image" /\ tasks[1].k = 2
    /\ Len(tasks[1].got) = 1 /\ tasks[1].inflight = 1
    /\ tasks[2].pc = "get_page" /\ tasks[2].inflight = 1

\* C18: a scrape task that has ended after its page fetch succeeded has issued
\* the GET of its page and then one GET per <img> source, in document order.
C18_OneGetPerImg ==
    \A i \in Tasks :
        LET t == tasks[i]
        IN  (t.pc \in { "done", "raised" } /\ t.page = "text" /\ t.exc # "KeyError") =>
                t.reqs = <<t.url>> \o t.srcs

\* C19: a task opens or writes a file only after get_image has returned for
\* every source of its page, writes in the order of the fetched list, and a
\* task ended by an exception or cancelled during an image fetch has opened
\* and written none.
C19_FetchAllThenWrite ==
    \A i \in Tasks :
        LET t == tasks[i]
        IN  /\ (Touched(t) \/ t.pc = "open") => Len(t.got) = Len(t.srcs)
            /\ Len(t.wrote) <= Len(t.images)
            /\ t.wrote = SubSeq(t.images, 1, Len(t.wrote))
            /\ (t.pc = "raised" \/ (t.pc = "cancelled" /\ t.was = "get_image")) => ~Touched(t)

C19_Witness ==
    \E i \in Tasks :
        /\ tasks[i].pc = "raised"
        /\ tasks[i].exc \in FetchExcs
        /\ tasks[i].images # <<>>
        /\ tasks[i].wrote = <<>>
        /\ \A n \in FileNames : files[n] = <<>>

\* C20: once the session is closed no scrape task has a GET in flight.
C20_NoGetAfterClose ==
    closed => \A i \in Tasks : tasks[i].inflight = 0

====
